---- MODULE Spec2Model ----
(***************************************************************************)
(* Model of AppComponent (src/src/app/app.ts): a text buffer with a        *)
(* tracked selection, an undo stack and a redo stack of whole-buffer       *)
(* snapshots, and the bold / italic / heading formatting commands.         *)
(*                                                                         *)
(* A JavaScript string is a TLA+ string, on which Len, \o and SubSeq work  *)
(* as on a sequence of characters.  Offsets are 0-based as in the source   *)
(* and positions 1-based, so the character at offset i is at position i+1. *)
(***************************************************************************)
EXTENDS Integers, Sequences, FiniteSets, TLC

\* ------------------------------------------------------------------ bounds
\* Deepest undo stack the model lets an edit or a format build.
MaxUndo == 2
\* Largest selection offset the textarea reports in the model.
MaxSel == 1
\* Formatting is only requested on buffers of at most this many characters.
MaxFormatLen == 1
\* Most cursor-repositioning timer callbacks pending at once.
MaxTimers == 1

\* --------------------------------------------------------------- literals
\* app.ts:14, the initial value of editorContent.
WelcomeText ==
  "Welcome to the text editor with undo/redo functionality!"
    \o "\n\nTry selecting some text and clicking the formatting buttons above."

BoldMark == "**"
BoldDefault == "Bold text"
ItalicMark == "_"
ItalicDefault == "Italic text"
HeadingNewLinePrefix == "\n# "
HeadingPrefix == "# "
HeadingDefault == "Heading"

\* The texts the text-input collaborator hands to onTextChange in the model.
Texts == { "a", "\n" }

\* ------------------------------------------------------------------ state
VARIABLES
  editorContent,   \* app.ts:14   the buffer
  undoStack,       \* app.ts:17
  redoStack,       \* app.ts:18
  selectionStart,  \* app.ts:21   tracked selection
  selectionEnd,    \* app.ts:22
  editorElement,   \* app.ts:25   TRUE once the @ViewChild reference is set
  debugInfo,       \* app.ts:28
  timers,          \* pending callbacks of app.ts:115-127, oldest first;
                   \* len is the length of the formattedText the closure
                   \* captured; start is history the closure does not hold:
                   \* the offset at which its formatting action spliced
  last,            \* history: the handler that ran last, what it was given,
                   \* and the buffer and stack depths it found on entry
  cleared          \* history: clearHistory has run

vars == << editorContent, undoStack, redoStack, selectionStart, selectionEnd,
           editorElement, debugInfo, timers, last, cleared >>

\* The component's fields as one value, so that a handler is a function
\* from component state to component state.
Cur ==
  [ editorContent |-> editorContent, undoStack |-> undoStack,
    redoStack |-> redoStack, selectionStart |-> selectionStart,
    selectionEnd |-> selectionEnd, editorElement |-> editorElement,
    debugInfo |-> debugInfo, timers |-> timers ]

\* ------------------------------------------------------ string primitives
Min(a, b) == IF a < b THEN a ELSE b
Max(a, b) == IF a > b THEN a ELSE b
Clamp(i, n) == Max(0, Min(i, n))

\* String.prototype.substring(a, b): both arguments are clamped to
\* [0, length] and swapped when a > b.
substring(s, a, b) ==
  LET ca == Clamp(a, Len(s))
      cb == Clamp(b, Len(s))
  IN  SubSeq(s, Min(ca, cb) + 1, Max(ca, cb))

\* String.prototype.substring(a): from a to the end.
substringFrom(s, a) == substring(s, a, Len(s))

\* s[i]: the character at offset i, undefined outside the string.
charAt(s, i) ==
  IF i >= 0 /\ i < Len(s) THEN SubSeq(s, i + 1, i + 1) ELSE "undefined"

\* The value undefined where a string is expected (an array read past its
\* end); no buffer of the model is this word.
Undefined == "undefined"

\* a[i] of an array of strings.
elemAt(a, i) == IF i >= 0 /\ i < Len(a) THEN a[i + 1] ELSE Undefined

\* The array a after a.pop(): an empty array stays empty.
popped(a) == SubSeq(a, 1, Len(a) - 1)

\* `Action: ${action} | Undo stack: ${u} | Redo stack: ${r}`
DebugInfo(action, u, r) ==
  "Action: " \o action \o " | Undo stack: " \o ToString(u)
    \o " | Redo stack: " \o ToString(r)

\* ------------------------------------------------------------ the handlers
\* Mutant of saveState: the redo stack survives a new action.
saveState_keepsRedo(st, action) ==
  [ st EXCEPT !.undoStack = Append(st.undoStack, st.editorContent),
              !.debugInfo =
                  DebugInfo(action, Len(st.undoStack) + 1, Len(st.redoStack)) ]

saveState(st, action) ==
  [ st EXCEPT !.undoStack = Append(st.undoStack, st.editorContent),
              !.redoStack = << >>,
              !.debugInfo = DebugInfo(action, Len(st.undoStack) + 1, 0) ]

\* Mutant of ngAfterViewInit: the initial state is not saved.
ngAfterViewInitFn_noSave(st) == st

ngAfterViewInitFn(st) == saveState(st, "Initial state")

\* Mutant of onTextChange: the snapshot is taken before the buffer is updated.
onTextChange_savesFirst(st, newText) ==
  IF st.editorContent # newText
  THEN [ saveState(st, "Text changed") EXCEPT !.editorContent = newText ]
  ELSE st

\* Mutant of onTextChange: no comparison with the current buffer.
onTextChange_always(st, newText) ==
  saveState([ st EXCEPT !.editorContent = newText ], "Text changed")

onTextChange(st, newText) ==
  IF st.editorContent # newText
  THEN saveState([ st EXCEPT !.editorContent = newText ], "Text changed")
  ELSE st

onSelectionChange(st, taStart, taEnd) ==
  [ st EXCEPT !.selectionStart = taStart, !.selectionEnd = taEnd ]

\* Mutant of applyFormatting: the text after the splice is taken from the
\* selection start, so the selected text is kept after the formatted copy.
applyFormatting_dup(st, taStart, taEnd, prefix, suffix, defaultText) ==
  IF ~st.editorElement
  THEN st
  ELSE
    LET selectedText == substring(st.editorContent, taStart, taEnd)
        textToInsert == IF selectedText # "" THEN selectedText
                        ELSE defaultText
        formattedText == prefix \o textToInsert \o suffix
        beforeText == substring(st.editorContent, 0, taStart)
        afterText == substringFrom(st.editorContent, taStart)
        spliced == [ st EXCEPT
                       !.selectionStart = taStart,
                       !.selectionEnd = taEnd,
                       !.editorContent =
                           beforeText \o formattedText \o afterText ]
        saved == saveState(spliced, "Applied formatting")
    IN  [ saved EXCEPT
            !.timers =
                Append(@, [ len |-> Len(formattedText), start |-> taStart ]) ]

\* Mutant of applyFormatting: no check of the textarea reference.
applyFormatting_noGuard(st, taStart, taEnd, prefix, suffix, defaultText) ==
  LET selectedText == substring(st.editorContent, taStart, taEnd)
      textToInsert == IF selectedText # "" THEN selectedText ELSE defaultText
      formattedText == prefix \o textToInsert \o suffix
      beforeText == substring(st.editorContent, 0, taStart)
      afterText == substringFrom(st.editorContent, taEnd)
      spliced == [ st EXCEPT
                     !.selectionStart = taStart,
                     !.selectionEnd = taEnd,
                     !.editorContent =
                         beforeText \o formattedText \o afterText ]
      saved == saveState(spliced, "Applied formatting")
  IN  [ saved EXCEPT
          !.timers =
              Append(@, [ len |-> Len(formattedText), start |-> taStart ]) ]

\* taStart, taEnd: textarea.selectionStart / selectionEnd read at line 96-97.
applyFormatting(st, taStart, taEnd, prefix, suffix, defaultText) ==
  IF ~st.editorElement
  THEN st
  ELSE
    LET selectedText == substring(st.editorContent, taStart, taEnd)
        textToInsert == IF selectedText # "" THEN selectedText
                        ELSE defaultText
        formattedText == prefix \o textToInsert \o suffix
        beforeText == substring(st.editorContent, 0, taStart)
        afterText == substringFrom(st.editorContent, taEnd)
        spliced == [ st EXCEPT
                       !.selectionStart = taStart,
                       !.selectionEnd = taEnd,
                       !.editorContent =
                           beforeText \o formattedText \o afterText ]
        saved == saveState(spliced, "Applied formatting")
    IN  [ saved EXCEPT
            !.timers =
                Append(@, [ len |-> Len(formattedText), start |-> taStart ]) ]

formatBold(st, taStart, taEnd) ==
  applyFormatting(st, taStart, taEnd, BoldMark, BoldMark, BoldDefault)

formatItalic(st, taStart, taEnd) ==
  applyFormatting(st, taStart, taEnd, ItalicMark, ItalicMark, ItalicDefault)

\* The prefix is chosen from the tracked selection, before applyFormatting
\* refreshes it from the textarea.
formatHeading(st, taStart, taEnd) ==
  LET prefix ==
        IF st.selectionStart > 0
             /\ charAt(st.editorContent, st.selectionStart - 1) = "\n"
        THEN HeadingPrefix
        ELSE HeadingNewLinePrefix
  IN  applyFormatting(st, taStart, taEnd, prefix, "", HeadingDefault)

\* The callback of app.ts:115-127; it reads this.selectionStart when it runs.
repositionCursor(st) ==
  LET newPosition == st.selectionStart + Head(st.timers).len
  IN  [ st EXCEPT !.selectionStart = newPosition,
                  !.selectionEnd = newPosition,
                  !.timers = Tail(@) ]

\* Mutant of undo: the buffer is set from the stack before the pop.
undo_keepsTop(st) ==
  IF Len(st.undoStack) <= 1
  THEN st
  ELSE
    LET rest == popped(st.undoStack)
    IN  [ st EXCEPT
            !.redoStack = Append(@, st.editorContent),
            !.undoStack = rest,
            !.editorContent = elemAt(st.undoStack, Len(st.undoStack) - 1),
            !.debugInfo =
                DebugInfo("Undo", Len(rest), Len(st.redoStack) + 1) ]

\* Mutant of undo: the restored state, not the state being left, goes onto
\* the redo stack.
undo_pushesRestored(st) ==
  IF Len(st.undoStack) <= 1
  THEN st
  ELSE
    LET rest == popped(st.undoStack)
    IN  [ st EXCEPT
            !.redoStack = Append(@, elemAt(rest, Len(rest) - 1)),
            !.undoStack = rest,
            !.editorContent = elemAt(rest, Len(rest) - 1),
            !.debugInfo =
                DebugInfo("Undo", Len(rest), Len(st.redoStack) + 1) ]

\* Mutant of undo: the state being left is not kept for redo.
undo_dropsState(st) ==
  IF Len(st.undoStack) <= 1
  THEN st
  ELSE
    LET rest == popped(st.undoStack)
    IN  [ st EXCEPT
            !.undoStack = rest,
            !.editorContent = elemAt(rest, Len(rest) - 1),
            !.debugInfo = DebugInfo("Undo", Len(rest), Len(st.redoStack)) ]

\* Mutant of undo: the floor is an empty stack, not the initial entry.
undo_floorAtZero(st) ==
  IF Len(st.undoStack) < 1
  THEN st
  ELSE
    LET rest == popped(st.undoStack)
    IN  [ st EXCEPT
            !.redoStack = Append(@, st.editorContent),
            !.undoStack = rest,
            !.editorContent = elemAt(rest, Len(rest) - 1),
            !.debugInfo =
                DebugInfo("Undo", Len(rest), Len(st.redoStack) + 1) ]

undo(st) ==
  IF Len(st.undoStack) <= 1
  THEN st
  ELSE
    LET rest == popped(st.undoStack)
    IN  [ st EXCEPT
            !.redoStack = Append(@, st.editorContent),
            !.undoStack = rest,
            !.editorContent = elemAt(rest, Len(rest) - 1),
            !.debugInfo =
                DebugInfo("Undo", Len(rest), Len(st.redoStack) + 1) ]

\* Mutant of redo: no check for an empty redo stack.
redo_noGuard(st) ==
  LET redoState == elemAt(st.redoStack, Len(st.redoStack) - 1)
  IN  [ st EXCEPT
          !.redoStack = popped(@),
          !.undoStack = Append(@, redoState),
          !.editorContent = redoState,
          !.debugInfo =
              DebugInfo("Redo", Len(st.undoStack) + 1,
                        Len(popped(st.redoStack))) ]

\* Mutant of redo: the redone state is read but left on the redo stack.
redo_peek(st) ==
  IF Len(st.redoStack) = 0
  THEN st
  ELSE
    LET redoState == elemAt(st.redoStack, Len(st.redoStack) - 1)
    IN  [ st EXCEPT
            !.undoStack = Append(@, redoState),
            !.editorContent = redoState,
            !.debugInfo =
                DebugInfo("Redo", Len(st.undoStack) + 1, Len(st.redoStack)) ]

\* Mutant of redo: the buffer being left is pushed onto the undo stack.
redo_pushesCurrent(st) ==
  IF Len(st.redoStack) = 0
  THEN st
  ELSE
    LET redoState == elemAt(st.redoStack, Len(st.redoStack) - 1)
    IN  [ st EXCEPT
            !.redoStack = popped(@),
            !.undoStack = Append(@, st.editorContent),
            !.editorContent = redoState,
            !.debugInfo =
                DebugInfo("Redo", Len(st.undoStack) + 1,
                          Len(st.redoStack) - 1) ]

redo(st) ==
  IF Len(st.redoStack) = 0
  THEN st
  ELSE
    LET redoState == elemAt(st.redoStack, Len(st.redoStack) - 1)
    IN  [ st EXCEPT
            !.redoStack = popped(@),
            !.undoStack = Append(@, redoState),
            !.editorContent = redoState,
            !.debugInfo =
                DebugInfo("Redo", Len(st.undoStack) + 1,
                          Len(st.redoStack) - 1) ]

\* Mutant of clearHistory: all history goes, the current state included.
clearHistory_empty(st) ==
  [ st EXCEPT !.undoStack = << >>,
              !.redoStack = << >>,
              !.debugInfo = DebugInfo("Clear history", 0, 0) ]

\* Mutant of clearHistory: the redo stack is left as it is.
clearHistory_keepsRedo(st) ==
  [ st EXCEPT !.undoStack = << st.editorContent >>,
              !.debugInfo = DebugInfo("Clear history", 1, Len(st.redoStack)) ]

clearHistory(st) ==
  [ st EXCEPT !.undoStack = << st.editorContent >>,
              !.redoStack = << >>,
              !.debugInfo = DebugInfo("Clear history", 1, 0) ]

canUndo(st) == Len(st.undoStack) > 1

canRedo(st) == Len(st.redoStack) > 0

\* ---------------------------------------------------------------- actions
\* Commit(st, op, in): the handler op, given in, leaves the component as st.
Commit(st, op, in) ==
  /\ editorContent' = st.editorContent
  /\ undoStack' = st.undoStack
  /\ redoStack' = st.redoStack
  /\ selectionStart' = st.selectionStart
  /\ selectionEnd' = st.selectionEnd
  /\ editorElement' = st.editorElement
  /\ debugInfo' = st.debugInfo
  /\ timers' = st.timers
  /\ last' = [ op |-> op, in |-> in,
                editorContent |-> editorContent,
                undoLen |-> Len(undoStack), redoLen |-> Len(redoStack) ]
  /\ cleared' = (cleared \/ op = "clearHistory")

\* The offsets a textarea showing s can report as its selection.
Selections(s) ==
  { p \in (0 .. Min(Len(s), MaxSel)) \X (0 .. Min(Len(s), MaxSel)) :
      p[1] <= p[2] }

NoInput == << >>

Init ==
  /\ editorContent = WelcomeText
  /\ undoStack = << >>
  /\ redoStack = << >>
  /\ selectionStart = 0
  /\ selectionEnd = 0
  /\ editorElement = FALSE
  /\ debugInfo = "No actions yet"
  /\ timers = << >>
  /\ last = [ op |-> "constructor", in |-> NoInput,
               editorContent |-> WelcomeText, undoLen |-> 0, redoLen |-> 0 ]
  /\ cleared = FALSE

\* The framework resolves @ViewChild('editor') and then calls the hook, once.
NgAfterViewInit ==
  /\ ~editorElement
  /\ Commit(ngAfterViewInitFn([ Cur EXCEPT !.editorElement = TRUE ]),
            "ngAfterViewInit", NoInput)

\* The template's event bindings exist once the view does.
OnTextChange ==
  /\ editorElement
  /\ \E newText \in Texts :
       /\ newText # editorContent => Len(undoStack) < MaxUndo
       /\ Commit(onTextChange(Cur, newText), "onTextChange", newText)

OnSelectionChange ==
  /\ editorElement
  /\ \E p \in Selections(editorContent) :
       Commit(onSelectionChange(Cur, p[1], p[2]), "onSelectionChange", p)

\* A formatting request can be carried out when the model's bounds leave
\* room for its snapshot and its timer; before the view exists it is still
\* accepted, and aborted by the guard of app.ts:88.
FormatRoom ==
  editorElement =>
    /\ Len(editorContent) <= MaxFormatLen
    /\ Len(undoStack) < MaxUndo
    /\ Len(timers) < MaxTimers

FormatBold ==
  /\ FormatRoom
  /\ \E p \in Selections(editorContent) :
       Commit(formatBold(Cur, p[1], p[2]), "formatBold", p)

FormatItalic ==
  /\ FormatRoom
  /\ \E p \in Selections(editorContent) :
       Commit(formatItalic(Cur, p[1], p[2]), "formatItalic", p)

FormatHeading ==
  /\ FormatRoom
  /\ \E p \in Selections(editorContent) :
       Commit(formatHeading(Cur, p[1], p[2]), "formatHeading", p)

TimerFires ==
  /\ timers # << >>
  /\ Commit(repositionCursor(Cur), "repositionCursor", NoInput)

Undo ==
  /\ editorElement
  /\ Commit(undo(Cur), "undo", NoInput)

Redo ==
  /\ editorElement
  /\ Commit(redo(Cur), "redo", NoInput)

ClearHistory ==
  /\ editorElement
  /\ Commit(clearHistory(Cur), "clearHistory", NoInput)

Next ==
  \/ NgAfterViewInit
  \/ OnTextChange
  \/ OnSelectionChange
  \/ FormatBold
  \/ FormatItalic
  \/ FormatHeading
  \/ TimerFires
  \/ Undo
  \/ Redo
  \/ ClearHistory

Spec == Init /\ [][Next]_vars

\* ------------------------------------------------------------------ claims
FormatOps == { "formatBold", "formatItalic", "formatHeading" }

\* The handler that ran last was an edit that changed the buffer.
EditChanged == last.op = "onTextChange" /\ last.editorContent # editorContent

\* The handler that ran last was a formatting command that was carried out.
FormatDone == last.op \in FormatOps /\ editorElement

\* This step is an edit that changes the buffer.
EditStep == last'.op = "onTextChange" /\ last'.in # editorContent

\* This step is a formatting command that is carried out.
FormatStep == last'.op \in FormatOps /\ editorElement

Top(stack) == stack[Len(stack)]

\* C1: after initialization, when onTextChange has just changed the buffer
\* from one content to a different one, an undo() called next makes the
\* buffer exactly the content it had before the edit.
C1_UndoAfterEditRestores ==
  EditChanged => undo(Cur).editorContent = last.editorContent

C1_Witness ==
  /\ EditChanged
  /\ canUndo(Cur)
  /\ undo(Cur).editorContent # editorContent

\* C2: when undo() has just run from a state where undo was possible (more
\* than one entry on the undo stack), a redo() called next makes the buffer
\* exactly the content it had immediately before that undo().
C2_UndoRedoRoundTrip ==
  (last.op = "undo" /\ last.undoLen > 1)
    => redo(Cur).editorContent = last.editorContent

C2_Witness ==
  /\ last.op = "undo"
  /\ last.undoLen > 1
  /\ canRedo(Cur)
  /\ last.editorContent # editorContent

\* C3: an edit that changes the buffer and a formatting command that is
\* carried out leave the redo stack empty, whatever it held before; the redo
\* stack is non-empty only while the last operation that touched the
\* history, which debugInfo names, is an undo or a redo.
C3_NewActionEmptiesRedo ==
  /\ (EditChanged \/ FormatDone) => redoStack = << >>
  /\ redoStack # << >>
       => SubSeq(debugInfo, 1, 12) \in { "Action: Undo", "Action: Redo" }

C3_Witness ==
  /\ FormatDone
  /\ last.redoLen > 0
  /\ redoStack = << >>

RECURSIVE UndoAll(_)
\* The component after undo() has been called until canUndo is false.
UndoAll(st) == IF canUndo(st) THEN UndoAll(undo(st)) ELSE st

\* C4: after initialization the undo stack always has at least one entry;
\* until clearHistory is invoked its bottom entry is the welcome text, and
\* undoing until canUndo is false leaves the welcome text in the buffer.
C4_InitialEntryIsNeverPopped ==
  editorElement =>
    /\ Len(undoStack) >= 1
    /\ ~cleared =>
         /\ undoStack[1] = WelcomeText
         /\ UndoAll(Cur).editorContent = WelcomeText
         /\ ~canUndo(Cur) => editorContent = WelcomeText

C4_Witness ==
  /\ last.op = "undo"
  /\ last.undoLen > 1
  /\ ~cleared
  /\ ~canUndo(Cur)
  /\ last.editorContent # WelcomeText
  /\ editorContent = WelcomeText

\* C5: undo() called when the undo stack holds exactly one entry changes
\* neither the buffer nor the undo stack nor the redo stack.
C5_UndoAtFloorIsNoOp ==
  [][ (last'.op = "undo" /\ Len(undoStack) = 1)
        => /\ editorContent' = editorContent
           /\ undoStack' = undoStack
           /\ redoStack' = redoStack ]_vars

C5_Witness ==
  /\ last.op = "undo"
  /\ last.undoLen = 1
  /\ last.redoLen > 0
  /\ Len(undoStack) = 1

\* C6: redo() called when the redo stack is empty changes neither the buffer
\* nor the undo stack nor the redo stack.
C6_RedoOnEmptyIsNoOp ==
  [][ (last'.op = "redo" /\ redoStack = << >>)
        => /\ editorContent' = editorContent
           /\ undoStack' = undoStack
           /\ redoStack' = redoStack ]_vars

C6_Witness ==
  /\ last.op = "redo"
  /\ last.redoLen = 0
  /\ last.undoLen > 1
  /\ redoStack = << >>

C8_PushesPreActionValue ==
  [][ (EditStep \/ FormatStep)
        => undoStack' = Append(undoStack, editorContent) ]_vars

\* C8 as amended: every edit that changes the buffer and every formatting
\* command that is carried out pushes onto the undo stack the content the
\* buffer holds after the action; the content it held before is not pushed,
\* it is the entry directly beneath the new one.
C8_PushesPostActionValue ==
  [][ (EditStep \/ FormatStep)
        => /\ undoStack' = Append(undoStack, editorContent')
           /\ editorContent' # editorContent
           /\ undoStack'[Len(undoStack)] = editorContent ]_vars

C8_Witness ==
  /\ FormatDone
  /\ Len(undoStack) = last.undoLen + 1
  /\ Top(undoStack) = editorContent
  /\ undoStack[Len(undoStack) - 1] = last.editorContent
  /\ last.editorContent # editorContent

Wrapped(buf, s, e, mark, dflt) ==
  SubSeq(buf, 1, s)
    \o mark
    \o (IF s < e THEN SubSeq(buf, s + 1, e) ELSE dflt)
    \o mark
    \o SubSeq(buf, e + 1, Len(buf))

\* C10: for every buffer and in-bounds selection (s, e), Bold and Italic,
\* when carried out, make the buffer buf[0:s] + mark + textToWrap + mark +
\* buf[e:], with mark '**' and default 'Bold text' for Bold, mark '_' and
\* default 'Italic text' for Italic; the text before s and after e is kept.
C10_BoldItalicSplice ==
  [][ (last'.op \in { "formatBold", "formatItalic" } /\ editorElement)
        => LET s == last'.in[1]
               e == last'.in[2]
               bold == last'.op = "formatBold"
               mark == IF bold THEN "**" ELSE "_"
               dflt == IF bold THEN "Bold text" ELSE "Italic text"
           IN  /\ editorContent' = Wrapped(editorContent, s, e, mark, dflt)
               /\ SubSeq(editorContent', 1, s) = SubSeq(editorContent, 1, s)
               /\ SubSeq(editorContent',
                         Len(editorContent') - (Len(editorContent) - e) + 1,
                         Len(editorContent'))
                    = SubSeq(editorContent, e + 1, Len(editorContent)) ]_vars

C10_Witness ==
  /\ last.op = "formatBold"
  /\ editorElement
  /\ last.in = << 0, 1 >>
  /\ last.editorContent = "a"
  /\ editorContent = "**a**"

\* The prefix the specification's heading rule gives for a splice at offset
\* s of buf.
HeadingRulePrefix(buf, s) ==
  IF s = 0 \/ SubSeq(buf, s, s) = "\n" THEN "# " ELSE "\n# "

\* C11: a heading that is carried out on the textarea selection (s, e)
\* splices in '# ' + text when s is 0 or the character before offset s is a
\* newline, and '\n# ' + text otherwise, text being the selection or
\* 'Heading'; a heading applied at selection start 0 does not begin with a
\* newline.
C11_HeadingPrefixRule ==
  [][ (last'.op = "formatHeading" /\ editorElement)
        => LET s == last'.in[1]
               e == last'.in[2]
               text == IF s < e THEN SubSeq(editorContent, s + 1, e)
                       ELSE "Heading"
           IN  /\ editorContent' =
                    SubSeq(editorContent, 1, s)
                      \o HeadingRulePrefix(editorContent, s) \o text
                      \o SubSeq(editorContent, e + 1, Len(editorContent))
               /\ s = 0 => SubSeq(editorContent', 1, 1) # "\n" ]_vars

\* This step is the deferred cursor repositioning of the oldest pending
\* formatting action.
RepositionStep == last'.op = "repositionCursor"

\* The offset immediately after the text the oldest pending formatting
\* action inserted.
AfterInserted == Head(timers).start + Head(timers).len

\* C12: once a formatting action on the selection (start, end) and its
\* deferred repositioning have both completed, the tracked selection is a
\* collapsed cursor at start + length(prefix + textToWrap + suffix).
C12_CursorAfterInsertedText ==
  [][ RepositionStep
        => /\ selectionStart' = selectionEnd'
           /\ selectionStart' = AfterInserted ]_vars

\* C17: whatever selection-change, edit, format, undo, redo or clear-history
\* events run between a formatting action and the firing of its timer
\* callback, the callback places the cursor at the position computed from
\* that formatting action's committed values, its splice start plus the
\* length of its formatted text, and it changes neither the buffer nor
\* either history stack.
C17_RepositionIsOrderIndependent ==
  [][ RepositionStep
        => /\ selectionStart' = AfterInserted
           /\ selectionEnd' = AfterInserted
           /\ editorContent' = editorContent
           /\ undoStack' = undoStack
           /\ redoStack' = redoStack ]_vars

\* C13: after initialization, whatever operation ran last (an edit, a
\* format and its deferred repositioning, an undo, a redo, clear-history),
\* the tracked selection lies within the buffer:
\* 0 <= selectionStart <= selectionEnd <= length(buffer).
C13_SelectionWithinBuffer ==
  editorElement =>
    /\ 0 <= selectionStart
    /\ selectionStart <= selectionEnd
    /\ selectionEnd <= Len(editorContent)

\* C14: clearHistory(), from any state reached after initialization, leaves
\* the buffer as it was, makes the undo stack the single entry holding the
\* buffer and empties the redo stack, so that canUndo and canRedo are both
\* false afterwards.
C14_ClearHistoryResets ==
  [][ (last'.op = "clearHistory" /\ editorElement)
        => /\ editorContent' = editorContent
           /\ undoStack' = << editorContent >>
           /\ redoStack' = << >>
           /\ ~canUndo(Cur')
           /\ ~canRedo(Cur') ]_vars

C14_Witness ==
  /\ last.op = "clearHistory"
  /\ last.undoLen > 1
  /\ undoStack = << editorContent >>
  /\ last.editorContent = editorContent
  /\ ~canUndo(Cur)
  /\ ~canRedo(Cur)

\* C15: onTextChange called with content identical to the buffer pushes no
\* undo entry and leaves the buffer and the redo stack as they were, so a
\* pending redo path survives it.
C15_SameTextIsNoOp ==
  [][ (last'.op = "onTextChange" /\ last'.in = editorContent)
        => /\ editorContent' = editorContent
           /\ undoStack' = undoStack
           /\ redoStack' = redoStack ]_vars

C15_Witness ==
  /\ last.op = "onTextChange"
  /\ last.in = last.editorContent
  /\ last.redoLen > 0
  /\ Len(redoStack) = last.redoLen
  /\ Len(undoStack) = last.undoLen

\* C16: a bold, italic or heading request made while the textarea reference
\* is unavailable changes nothing: the buffer, the tracked selection, the
\* undo stack and the redo stack stay as they were and no deferred
\* repositioning is scheduled.
C16_FormatWithoutEditorAborts ==
  [][ (last'.op \in FormatOps /\ ~editorElement)
        => /\ editorContent' = editorContent
           /\ selectionStart' = selectionStart
           /\ selectionEnd' = selectionEnd
           /\ undoStack' = undoStack
           /\ redoStack' = redoStack
           /\ timers' = timers ]_vars

C16_Witness ==
  /\ last.op = "formatHeading"
  /\ ~editorElement
  /\ last.in = << 0, 1 >>
  /\ editorContent = WelcomeText
  /\ timers = << >>

\* C18: in every state reached after initialization the top entry of the
\* undo stack is the current buffer content.
C18_TopOfUndoIsBuffer ==
  editorElement =>
    /\ undoStack # << >>
    /\ Top(undoStack) = editorContent

C18_Witness ==
  /\ last.op = "formatItalic"
  /\ editorElement
  /\ Len(undoStack) = last.undoLen + 1
  /\ Top(undoStack) = editorContent
  /\ editorContent # last.editorContent

RECURSIVE Reverse(_)
Reverse(q) == IF q = << >> THEN << >> ELSE Append(Reverse(Tail(q)), Head(q))

\* The history as one line: the undo stack, then the redo stack from its top
\* down.
Line(st) == st.undoStack \o Reverse(st.redoStack)

RECURSIVE UndoTimes(_, _)
UndoTimes(st, k) == IF k = 0 THEN st ELSE UndoTimes(undo(st), k - 1)

RECURSIVE RedoTimes(_, _)
RedoTimes(st, k) == IF k = 0 THEN st ELSE RedoTimes(redo(st), k - 1)

\* undo() and redo() leave the line of st as it is, and k successful undos
\* followed by k redos give back the buffer and both stacks of st.
MovesOnly(st) ==
  /\ Line(undo(st)) = Line(st)
  /\ Line(redo(st)) = Line(st)
  /\ \A k \in 1 .. (Len(st.undoStack) - 1) :
       LET back == RedoTimes(UndoTimes(st, k), k)
       IN  /\ Len(UndoTimes(st, k).undoStack) = Len(st.undoStack) - k
           /\ back.editorContent = st.editorContent
           /\ back.undoStack = st.undoStack
           /\ back.redoStack = st.redoStack

\* C19: in every state reached after initialization, and in the state one
\* more edit leads to, undo() and redo() only move entries between the two
\* stacks: the undo stack followed by the reversed redo stack is the same
\* before and after, so k successful undos followed by k redos restore the
\* buffer, the undo stack and the redo stack exactly.
C19_UndoRedoOnlyMoveEntries ==
  editorElement =>
    /\ MovesOnly(Cur)
    /\ \A t \in Texts : MovesOnly(onTextChange(Cur, t))

C19_Witness ==
  /\ last.op = "redo"
  /\ last.redoLen > 0
  /\ canUndo(Cur)
  /\ Line(undo(Cur)) = Line(Cur)
  /\ \E t \in Texts :
       /\ Len(onTextChange(Cur, t).undoStack) = 3
       /\ UndoTimes(onTextChange(Cur, t), 2).redoStack # << >>

\* C20: in every state reached after initialization no two adjacent entries
\* of the undo stack are equal, so an undo() with canUndo true and a redo()
\* with canRedo true each change the buffer to a different content.
C20_NoVisibleNoOp ==
  editorElement =>
    /\ \A i \in 1 .. (Len(undoStack) - 1) : undoStack[i] # undoStack[i + 1]
    /\ canUndo(Cur) => undo(Cur).editorContent # editorContent
    /\ canRedo(Cur) => redo(Cur).editorContent # editorContent

C20_Witness ==
  /\ editorElement
  /\ last.op = "undo"
  /\ last.undoLen > 1
  /\ editorContent # last.editorContent
  /\ canRedo(Cur)
  /\ redo(Cur).editorContent # editorContent
  /\ redo(Cur).editorContent = last.editorContent

====
